---- MODULE Spec2Model ----
(***************************************************************************)
(* windo: locate a Windows executable from WSL, decide how to launch it,   *)
(* relay its output and mirror its exit code (src/src/main.rs).            *)
(*                                                                         *)
(* Text (paths, command names, diagnostic lines) is a sequence of          *)
(* one-character strings, so that prefix, suffix and extension tests are   *)
(* computed and not assumed.  Long literal tails of messages that no test  *)
(* looks into are kept as one element.                                     *)
(***************************************************************************)
EXTENDS Integers, Sequences, FiniteSets, TLC

VARIABLES
    pc,        \* position of the main flow
    args,      \* env::args(): <<program, command, passthrough...>>
    cwd,       \* outcome of env::current_dir()
    link,      \* outcome of fs::read_link(current_dir)
    files,     \* names present in the search-path directory
    unc,       \* value returned by is_on_unc_path: <<>> before the call, then <<b>>
    exe,       \* outcome of find_configuration (None before the call)
    command,   \* the std::process::Command built by main (None before)
    spawned,   \* processes created so far, in order
    child,     \* "none" | "running" | "exited"
    total,     \* number of lines the child writes, per stream
    nwritten,  \* number of lines the child has written so far, per stream
    pipe,      \* content of the child's stdout / stderr pipe
    status,    \* the ExitStatus child.wait() returned (None before)
    thr,       \* relay thread per stream: "unstarted" | "running" | "finished" | "killed"
    sink,      \* what the parent's stdout / stderr have received, in order
    translation, \* outcome of running wslpath (None if it was not run)
    exitCode   \* the ExitCode main returned: <<>> before, then <<code>>

vars == <<pc, args, cwd, link, files, unc, exe, command, spawned, child, total,
          nwritten, pipe, status, thr, sink, translation, exitCode>>

-----------------------------------------------------------------------------
(* Bounds of the model *)

\* most lines a child writes to one stream
MaxLines == 2
\* capacity of an OS pipe, in lines
PipeCap == 1

-----------------------------------------------------------------------------
(* Text helpers *)

Lower == {"a","b","c","d","e","f","g","h","i","j","k","l","m",
          "n","o","p","q","r","s","t","u","v","w","x","y","z"}
Upper == {"A","B","C","D","E","F","G","H","I","J","K","L","M",
          "N","O","P","Q","R","S","T","U","V","W","X","Y","Z"}

is_ascii_alphabetic(c) == c \in Lower \cup Upper

starts_with(s, p) == Len(s) >= Len(p) /\ SubSeq(s, 1, Len(p)) = p

ends_with(s, p) == Len(s) >= Len(p) /\ SubSeq(s, Len(s) - Len(p) + 1, Len(s)) = p

\* chars().nth(i): 0-based, an Option modelled as a sequence of length 0 or 1
nth(s, i) == IF i + 1 <= Len(s) THEN <<s[i + 1]>> ELSE <<>>

\* position of the last occurrence of c in s, 0 if none
RECURSIVE rfind(_, _, _)
rfind(s, c, i) == IF i = 0 THEN 0 ELSE IF s[i] = c THEN i ELSE rfind(s, c, i - 1)

\* Path::file_name for a path that does not end in a separator
file_name(p) == SubSeq(p, rfind(p, "/", Len(p)) + 1, Len(p))

\* Path::extension().is_some(): the file name has a dot that is not its first
\* character (and the name is not ".."); the extension may be empty ("f.")
has_extension(p) ==
    LET n == file_name(p)
        d == rfind(n, ".", Len(n))
    IN  n # <<".", ".">> /\ d > 1

\* str::trim restricted to the white space that occurs here
RECURSIVE trim_end(_)
trim_end(s) == IF s # <<>> /\ s[Len(s)] \in {"\n", " "} THEN trim_end(SubSeq(s, 1, Len(s) - 1)) ELSE s
RECURSIVE trim_start(_)
trim_start(s) == IF s # <<>> /\ s[1] \in {"\n", " "} THEN trim_start(Tail(s)) ELSE s
trim(s) == trim_start(trim_end(s))

-----------------------------------------------------------------------------
(* is_on_unc_path *)

MntPrefix == <<"/", "m", "n", "t", "/">>

\* the value of a variable that has not been assigned yet
None == [none |-> TRUE]

\* an outcome is [ok |-> FALSE] or [ok |-> TRUE, path |-> text]
Failed == [ok |-> FALSE]
Got(p) == [ok |-> TRUE, path |-> p]

is_on_unc_path(cwdRes, linkRes) ==
    IF ~cwdRes.ok THEN TRUE
    ELSE LET canonical_dir == IF linkRes.ok THEN linkRes.path ELSE cwdRes.path
             path_str == canonical_dir
             c5 == nth(path_str, 5)
             c6 == nth(path_str, 6)
         \* Option::map_or(false, f) is: Some(c) and f(c)
         IN  \/ ~starts_with(path_str, MntPrefix)
             \/ ~(c5 # <<>> /\ is_ascii_alphabetic(c5[1]))
             \/ ~(c6 # <<>> /\ c6[1] = "/")

-----------------------------------------------------------------------------
(* find_configuration *)

SearchDir == <<"/", "b">>

\* which::which(name): the path of name in the search-path directory
which(name, fs) == IF name \in fs THEN Got(SearchDir \o <<"/">> \o name) ELSE Failed

DotExe == <<".", "e", "x", "e">>
DotBat == <<".", "b", "a", "t">>
DotCmd == <<".", "c", "m", "d">>

supported == <<[suffix |-> DotExe, needs_cmd_wrapper |-> FALSE, pipe |-> FALSE],
               [suffix |-> DotBat, needs_cmd_wrapper |-> TRUE, pipe |-> TRUE],
               [suffix |-> DotCmd, needs_cmd_wrapper |-> TRUE, pipe |-> TRUE]>>

Configuration(p, pi, w) == [ok |-> TRUE, path |-> p, pipe |-> pi, needs_cmd_wrapper |-> w]

NotFoundTail == "' not found"
RestrictedTail == "' found but cannot be executed from UNC path (network drive). Use .exe files or run from a local drive."
CommandQuote == "Command '"

Err(msg) == [ok |-> FALSE, msg |-> msg]
not_found(cmd) == Err(<<CommandQuote>> \o cmd \o <<NotFoundTail>>)
found_but_unc(p) == Err(<<CommandQuote>> \o p \o <<RestrictedTail>>)

\* a variant that never asks for the wrapper
explicit_configuration_direct(cmd, fs) ==
    LET r == which(cmd, fs)
    IN  IF r.ok THEN Configuration(r.path, FALSE, FALSE) ELSE not_found(cmd)

\* lines 39-43: the name carries an extension
explicit_configuration(cmd, fs) ==
    LET r == which(cmd, fs)
        needs_cmd_wrapper == ends_with(cmd, DotBat) \/ ends_with(cmd, DotCmd)
    IN  IF r.ok THEN Configuration(r.path, needs_cmd_wrapper, needs_cmd_wrapper)
        ELSE not_found(cmd)

\* a variant of the loop that forgets the restricted-context test
RECURSIVE search_first_compatible(_, _, _, _, _)
search_first_compatible(cmd, fs, is_unc, i, found_unsupported) ==
    IF i > Len(supported)
    THEN IF found_unsupported # <<>> THEN found_but_unc(found_unsupported[1].path)
         ELSE not_found(cmd)
    ELSE LET ext == supported[i]
             r == which(cmd \o ext.suffix, fs)
         IN  IF r.ok
             THEN Configuration(r.path, ext.pipe, ext.needs_cmd_wrapper)
             ELSE search_first_compatible(cmd, fs, is_unc, i + 1, found_unsupported)

\* lines 70-98: the loop over the supported suffixes from index i on, with the
\* Option found_unsupported (a sequence of length 0 or 1), and what follows it
RECURSIVE search(_, _, _, _, _)
search(cmd, fs, is_unc, i, found_unsupported) ==
    IF i > Len(supported)
    THEN IF found_unsupported # <<>> THEN found_but_unc(found_unsupported[1].path)
         ELSE not_found(cmd)
    ELSE LET ext == supported[i]
             r == which(cmd \o ext.suffix, fs)
         IN  IF r.ok
             THEN IF ext.needs_cmd_wrapper /\ is_unc
                  THEN search(cmd, fs, is_unc, i + 1,
                              <<Configuration(r.path, ext.pipe, ext.needs_cmd_wrapper)>>)
                  ELSE Configuration(r.path, ext.pipe, ext.needs_cmd_wrapper)
             ELSE search(cmd, fs, is_unc, i + 1, found_unsupported)

find_configuration(cmd, fs, cwdRes, linkRes) ==
    IF has_extension(cmd) THEN explicit_configuration(cmd, fs)
    ELSE LET is_unc == is_on_unc_path(cwdRes, linkRes)
         IN  search(cmd, fs, is_unc, 1, <<>>)

-----------------------------------------------------------------------------
(* main: building the command *)

Streams == {"out", "err"}

CmdExe == <<"c", "m", "d", ".", "e", "x", "e">>
WslPath == <<"w", "s", "l", "p", "a", "t", "h">>
SlashC == <<"/", "c">>
DashW == <<"-", "w">>

\* what `wslpath -w p` prints for a path outside /mnt: the UNC form of p
RECURSIVE backslashes(_)
backslashes(p) ==
    IF p = <<>> THEN <<>>
    ELSE <<IF p[1] = "/" THEN "\\" ELSE p[1]>> \o backslashes(Tail(p))
wslpath_w(p) == <<"\\", "\\", "wsl$", "\\", "D">> \o backslashes(p)

\* the possible outcomes of Command::new("wslpath").arg("-w").arg(p).output():
\* the utility cannot be started; it runs and prints the translated path; it
\* runs, reports failure and prints nothing on its standard output
WslOutcomes(p) ==
    { [started |-> FALSE, success |-> FALSE, stdout |-> <<>>],
      [started |-> TRUE, success |-> TRUE, stdout |-> wslpath_w(p) \o <<"\n">>],
      [started |-> TRUE, success |-> FALSE, stdout |-> <<>>] }

\* lines 122-127: .output().map(stdout trimmed).unwrap_or_else(path.display())
windows_path(o, p) == IF o.started THEN trim(o.stdout) ELSE p

\* args[2..]
passthrough(a) == SubSeq(a, 3, Len(a))

\* lines 116-136 and 192-211 (the same construction in both branches),
\* with the Stdio::piped() of lines 139-140
build_command(e, a, o) ==
    IF e.needs_cmd_wrapper
    THEN [program |-> CmdExe,
          argv |-> <<SlashC, windows_path(o, e.path)>> \o passthrough(a),
          piped |-> e.pipe]
    ELSE [program |-> e.path, argv |-> passthrough(a), piped |-> e.pipe]

-----------------------------------------------------------------------------
(* main: diagnostics and exit codes *)

ErrorWord == <<"E", "r", "r", "o", "r">>
UsageWord == <<"U", "s", "a", "g", "e">>
OsError == <<"os error">>

usage_line(a) == UsageWord \o <<":", " ">> \o a[1] \o <<" <command> [args...]">>
error_line(msg) == ErrorWord \o <<":", " ">> \o msg
starting_line(p, e) == ErrorWord \o <<" ", "starting '">> \o p \o <<"': ">> \o e
waiting_line(p, e) == ErrorWord \o <<" ", "waiting for '">> \o p \o <<"': ">> \o e

\* a variant of eprintln! that prints nothing
eprintln_nothing(text) == <<>>

\* eprintln!: one line on the parent's standard error, written by the main flow
eprintln(text) == <<[who |-> "main", text |-> text]>>

\* ExitCode::FAILURE
FAILURE == 1

\* a variant with unwrap_or(0)
exit_code_or_zero(st) == IF st.code = <<>> THEN 0 ELSE st.code[1] % 256

\* line 230: status.code().unwrap_or(1) as u8
exit_code(st) == IF st.code = <<>> THEN 1 ELSE st.code[1] % 256

\* a variant of the lookup that runs an external `which` process
which_process(name) == <<[program |-> <<"w", "h", "i", "c", "h">>, argv |-> <<name>>]>>

\* the processes a which::which lookup creates: none, it reads the file system
which_spawns(name) == <<>>

-----------------------------------------------------------------------------
(* Inputs *)

Prog == <<"w">>
F == <<"f">>
Commands == {F, F \o DotExe, F \o DotBat, F \o DotCmd, F \o <<".">>, F \o <<".", "s", "h">>}
FileUniverse == Commands \ {F}
Passthroughs == {<<>>, << <<"-", "v">> >>}
Argvs == {<<Prog>>} \cup {<<Prog, c>> \o r : c \in Commands, r \in Passthroughs}

LocalDir == <<"/", "m", "n", "t", "/", "c", "/", "w">>
HomeDir == <<"/", "h", "o", "m", "e">>
RunCwds == {Failed, Got(LocalDir), Got(HomeDir)}

\* ExitStatus values: code() is Some(k), or None after an abnormal termination
ChildCodes == {0, 2, 255}
Statuses == {[code |-> <<k>>] : k \in ChildCodes} \cup {[code |-> <<>>]}

Digits == <<"1", "2", "3", "4", "5", "6", "7", "8", "9">>
\* the i-th line the child writes to stream s
LineText(s, i) == <<s, "#", Digits[i], "\n">>

-----------------------------------------------------------------------------
(* main: the steps of the main flow *)

Idle ==
    /\ unc = <<>> /\ exe = None /\ command = None /\ spawned = <<>>
    /\ child = "none"
    /\ total = [s \in Streams |-> 0] /\ nwritten = [s \in Streams |-> 0]
    /\ pipe = [s \in Streams |-> <<>>]
    /\ status = None
    /\ thr = [s \in Streams |-> "unstarted"]
    /\ sink = [s \in Streams |-> <<>>]
    /\ translation = None
    /\ exitCode = <<>>

NoEnv == cwd = Failed /\ link = Failed /\ files = {}

Init == pc = "start" /\ args \in Argvs /\ NoEnv /\ Idle

\* lines 102-106
Usage ==
    /\ pc = "start" /\ Len(args) < 2
    /\ sink' = [sink EXCEPT !["err"] = @ \o eprintln(usage_line(args))]
    /\ exitCode' = <<FAILURE>>
    /\ pc' = "returned"
    /\ UNCHANGED <<args, cwd, link, files, unc, exe, command, spawned, child, total,
                   nwritten, pipe, status, thr, translation>>

\* lines 108-114 with the environment fs, c, l
ResolveWith(fs, c, l) ==
    /\ pc = "start" /\ Len(args) >= 2
    /\ LET r == find_configuration(args[2], fs, c, l)
       IN  /\ exe' = r
           /\ spawned' = spawned \o which_spawns(args[2])
           /\ IF r.ok
              THEN /\ pc' = "build"
                   /\ UNCHANGED <<sink, exitCode>>
              ELSE /\ sink' = [sink EXCEPT !["err"] = @ \o eprintln(error_line(r.msg))]
                   /\ exitCode' = <<FAILURE>>
                   /\ pc' = "returned"
    /\ UNCHANGED <<args, cwd, link, files, unc, command, child, total,
                   nwritten, pipe, status, thr, translation>>

Resolve == \E fs \in SUBSET FileUniverse, c \in RunCwds : ResolveWith(fs, c, Failed)

\* lines 116-136 / 192-211
Build ==
    /\ pc = "build"
    /\ IF exe.needs_cmd_wrapper
       THEN \E o \in WslOutcomes(exe.path) :
               /\ translation' = o
               /\ command' = build_command(exe, args, o)
               /\ spawned' = IF o.started
                             THEN Append(spawned, [program |-> WslPath, argv |-> <<DashW, exe.path>>])
                             ELSE spawned
       ELSE /\ command' = build_command(exe, args, None)
            /\ UNCHANGED <<translation, spawned>>
    /\ pc' = "spawn"
    /\ UNCHANGED <<args, cwd, link, files, unc, exe, child, total,
                   nwritten, pipe, status, thr, sink, exitCode>>

\* lines 138-143 / 213-214: spawn() succeeds
SpawnOk ==
    /\ pc = "spawn"
    /\ \E n \in 0..MaxLines, m \in 0..MaxLines : total' = [out |-> n, err |-> m]
    /\ child' = "running"
    /\ spawned' = Append(spawned, [program |-> command.program, argv |-> command.argv])
    /\ pc' = IF command.piped THEN "thread_out" ELSE "wait"
    /\ UNCHANGED <<args, cwd, link, files, unc, exe, command,
                   nwritten, pipe, status, thr, sink, translation, exitCode>>

\* lines 144-147 / 215-218: spawn() fails
SpawnErr ==
    /\ pc = "spawn"
    /\ sink' = [sink EXCEPT !["err"] = @ \o eprintln(starting_line(exe.path, OsError))]
    /\ exitCode' = <<FAILURE>>
    /\ pc' = "returned"
    /\ UNCHANGED <<args, cwd, link, files, unc, exe, command, spawned, child, total,
                   nwritten, pipe, status, thr, translation>>

\* lines 153-164
StartStdoutThread ==
    /\ pc = "thread_out"
    /\ thr' = [thr EXCEPT !["out"] = "running"]
    /\ pc' = "thread_err"
    /\ UNCHANGED <<args, cwd, link, files, unc, exe, command, spawned, child, total,
                   nwritten, pipe, status, sink, translation, exitCode>>

\* lines 166-177
StartStderrThread ==
    /\ pc = "thread_err"
    /\ thr' = [thr EXCEPT !["err"] = "running"]
    /\ pc' = "wait"
    /\ UNCHANGED <<args, cwd, link, files, unc, exe, command, spawned, child, total,
                   nwritten, pipe, status, sink, translation, exitCode>>

\* lines 179-180 and 187 / 221-222 and 230: child.wait() returns the status
WaitOk ==
    /\ pc = "wait" /\ child = "exited"
    /\ \E st \in Statuses :
          /\ status' = st
          /\ IF command.piped
             THEN pc' = "join_out" /\ UNCHANGED exitCode
             ELSE pc' = "returned" /\ exitCode' = <<exit_code(st)>>
    /\ UNCHANGED <<args, cwd, link, files, unc, exe, command, spawned, child, total,
                   nwritten, pipe, thr, sink, translation>>

\* lines 181-184 / 223-226: child.wait() fails
WaitErr ==
    /\ pc = "wait"
    /\ sink' = [sink EXCEPT !["err"] = @ \o eprintln(waiting_line(exe.path, OsError))]
    /\ exitCode' = <<FAILURE>>
    /\ pc' = "returned"
    /\ UNCHANGED <<args, cwd, link, files, unc, exe, command, spawned, child, total,
                   nwritten, pipe, status, thr, translation>>

\* line 187: stdout_handle.join()
JoinStdout ==
    /\ pc = "join_out" /\ thr["out"] = "finished"
    /\ pc' = "join_err"
    /\ UNCHANGED <<args, cwd, link, files, unc, exe, command, spawned, child, total,
                   nwritten, pipe, status, thr, sink, translation, exitCode>>

\* lines 188-190 and 230: stderr_handle.join(), then the exit code
JoinStderr ==
    /\ pc = "join_err" /\ thr["err"] = "finished"
    /\ exitCode' = <<exit_code(status)>>
    /\ pc' = "returned"
    /\ UNCHANGED <<args, cwd, link, files, unc, exe, command, spawned, child, total,
                   nwritten, pipe, status, thr, sink, translation>>

\* the process ends once main has returned: threads still running end with it
ProcessExit ==
    /\ pc = "returned"
    /\ pc' = "exited"
    /\ thr' = [s \in Streams |-> IF thr[s] = "running" THEN "killed" ELSE thr[s]]
    /\ UNCHANGED <<args, cwd, link, files, unc, exe, command, spawned, child, total,
                   nwritten, pipe, status, sink, translation, exitCode>>

-----------------------------------------------------------------------------
(* The child process *)

\* the child writes its next line to stream s: into the pipe when the stream
\* is captured (blocking while the pipe is full), else to the inherited stream
ChildWrite(s) ==
    /\ child = "running" /\ pc # "exited"
    /\ nwritten[s] < total[s]
    /\ nwritten' = [nwritten EXCEPT ![s] = @ + 1]
    /\ IF command.piped
       THEN /\ Len(pipe[s]) < PipeCap
            /\ pipe' = [pipe EXCEPT ![s] = Append(@, LineText(s, nwritten[s] + 1))]
            /\ UNCHANGED sink
       ELSE /\ sink' = [sink EXCEPT ![s] = Append(@, [who |-> "child", text |-> LineText(s, nwritten[s] + 1)])]
            /\ UNCHANGED pipe
    /\ UNCHANGED <<pc, args, cwd, link, files, unc, exe, command, spawned, child, total,
                   status, thr, translation, exitCode>>

\* the child exits after its last line, which closes its ends of the pipes
ChildExit ==
    /\ child = "running" /\ pc # "exited"
    /\ nwritten = total
    /\ child' = "exited"
    /\ UNCHANGED <<pc, args, cwd, link, files, unc, exe, command, spawned, total,
                   nwritten, pipe, status, thr, sink, translation, exitCode>>

-----------------------------------------------------------------------------
(* The relay threads *)

\* what reader.read_line can return: the next line, an error in place of the
\* next line (its bytes are consumed), or Ok(0) once the pipe is empty and
\* its writer has gone; with an empty pipe and a live writer it blocks
ReadResults(p, closed) ==
    IF p # <<>>
    THEN {[ok |-> TRUE, n |-> Len(Head(p)), line |-> Head(p)],
          [ok |-> FALSE, n |-> 0, line |-> <<>>]}
    ELSE IF closed THEN {[ok |-> TRUE, n |-> 0, line |-> <<>>]} ELSE {}

\* lines 160-161 / 173-174: print! and flush, by a relay thread; an empty
\* text puts nothing on the stream
print(text) == IF text = <<>> THEN <<>> ELSE <<[who |-> "relay", text |-> text]>>

\* a variant of the loop test that never breaks on a read of 0 bytes
relay_continues_on_eof(r) == r.ok

\* lines 156-159: the loop goes on while read_line is Ok(n) with n # 0
relay_continues(r) == r.ok /\ r.n # 0

\* lines 153-164 (s = "out"), 166-177 (s = "err"): one iteration of the loop
Relay(s) ==
    /\ thr[s] = "running" /\ pc # "exited"
    /\ \E r \in ReadResults(pipe[s], child = "exited") :
          /\ pipe' = [pipe EXCEPT ![s] = IF @ = <<>> THEN @ ELSE Tail(@)]
          /\ IF relay_continues(r)
             THEN /\ sink' = [sink EXCEPT ![s] = @ \o print(r.line)]
                  /\ UNCHANGED thr
             ELSE /\ thr' = [thr EXCEPT ![s] = "finished"]
                  /\ UNCHANGED sink
    /\ UNCHANGED <<pc, args, cwd, link, files, unc, exe, command, spawned, child, total,
                   nwritten, status, translation, exitCode>>

-----------------------------------------------------------------------------
(* Specifications *)

Next ==
    \/ Usage
    \/ Resolve
    \/ Build
    \/ SpawnOk
    \/ SpawnErr
    \/ StartStdoutThread
    \/ StartStderrThread
    \/ WaitOk
    \/ WaitErr
    \/ JoinStdout
    \/ JoinStderr
    \/ ProcessExit
    \/ ChildExit
    \/ \E s \in Streams : ChildWrite(s)
    \/ \E s \in Streams : Relay(s)

Spec == Init /\ [][Next]_vars

\* the steps of the main flow
MainStep ==
    \/ Usage
    \/ Resolve
    \/ Build
    \/ SpawnOk
    \/ SpawnErr
    \/ StartStdoutThread
    \/ StartStderrThread
    \/ WaitOk
    \/ WaitErr
    \/ JoinStdout
    \/ JoinStderr

\* Spec under the scheduling the operating system gives: the main thread and
\* each relay thread run whenever they can, and the process ends once main
\* has returned.  Nothing is assumed about the child.
FairSpec ==
    /\ Spec
    /\ WF_vars(MainStep)
    /\ WF_vars(ProcessExit)
    /\ \A s \in Streams : WF_vars(Relay(s))

-----------------------------------------------------------------------------
(* is_on_unc_path on its own *)

PathPrefixes == {<<"/">>, <<"/", "m", "n", "t">>, MntPrefix, <<"/", "m", "/">>,
                 <<"/", "h", "o", "m", "e", "/">>}
PathNames == {<<>>, <<"c">>, <<"Z">>, <<"1">>, <<"c", "d">>}
PathRests == {<<>>, <<"/", "w">>, <<"/", "w", "/", "x">>}

\* what env::current_dir and fs::read_link return: absolute, no empty
\* component, no trailing separator except for the root
RECURSIVE no_double_slash(_)
no_double_slash(p) ==
    Len(p) < 2 \/ (~(p[1] = "/" /\ p[2] = "/") /\ no_double_slash(Tail(p)))
Normalized(p) == no_double_slash(p) /\ (p = <<"/">> \/ p[Len(p)] # "/")

SamplePaths == {p \in {a \o b \o c : a \in PathPrefixes, b \in PathNames, c \in PathRests} :
                   Normalized(p)}
LinkTargets == {<<"/", "m", "n", "t", "/", "c">>, LocalDir, HomeDir}

ProbeInit ==
    /\ pc = "start" /\ args = <<Prog>> /\ files = {}
    /\ cwd \in {Failed} \cup {Got(p) : p \in SamplePaths}
    /\ link \in {Failed} \cup {Got(p) : p \in LinkTargets}
    \* read_link is called only on a directory that was obtained, and the
    \* root is never a symbolic link
    /\ link.ok => (cwd.ok /\ cwd.path # <<"/">>)
    /\ Idle

Probe ==
    /\ pc = "start"
    /\ unc' = <<is_on_unc_path(cwd, link)>>
    /\ pc' = "probed"
    /\ UNCHANGED <<args, cwd, link, files, exe, command, spawned, child, total,
                   nwritten, pipe, status, thr, sink, translation, exitCode>>

ProbeNext == Probe

ProbeSpec == ProbeInit /\ [][ProbeNext]_vars

-----------------------------------------------------------------------------
(* find_configuration and the launch, with the environment kept in the state *)

LocateInit ==
    /\ pc = "start"
    /\ args \in Argvs \ {<<Prog>>}
    /\ files \in SUBSET FileUniverse
    /\ cwd \in RunCwds
    /\ link \in {Failed, Got(LocalDir)}
    /\ Idle

Locate == ResolveWith(files, cwd, link)

LocateNext == Locate \/ Build \/ SpawnOk \/ SpawnErr

LocateSpec == LocateInit /\ [][LocateNext]_vars

-----------------------------------------------------------------------------
(* Properties *)

PathOf(name) == SearchDir \o <<"/">> \o name

Smallest(S) == CHOOSE i \in S : \A j \in S : i <= j
Largest(S) == CHOOSE i \in S : \A j \in S : i >= j

\* the reference resolution: the outcome as a kind and a path
RefLocate(cmd, fs, restricted) ==
    IF has_extension(cmd)
    THEN IF cmd \in fs THEN [kind |-> "Resolved", path |-> PathOf(cmd)]
         ELSE [kind |-> "NotFound", path |-> <<>>]
    ELSE LET found == {i \in 1..3 : cmd \o supported[i].suffix \in fs}
             compatible == {i \in found : ~restricted \/ supported[i].suffix = DotExe}
         IN  IF compatible # {}
             THEN [kind |-> "Resolved", path |-> PathOf(cmd \o supported[Smallest(compatible)].suffix)]
             ELSE IF found # {}
                  THEN [kind |-> "FoundButRestricted",
                        path |-> PathOf(cmd \o supported[Largest(found)].suffix)]
                  ELSE [kind |-> "NotFound", path |-> <<>>]

\* the outcome find_configuration reported, read off its result
Outcome(r) ==
    IF r.ok THEN [kind |-> "Resolved", path |-> r.path]
    ELSE IF r.msg[Len(r.msg)] = NotFoundTail /\ r.msg = <<CommandQuote>> \o args[2] \o <<NotFoundTail>>
         THEN [kind |-> "NotFound", path |-> <<>>]
         ELSE IF r.msg[Len(r.msg)] = RestrictedTail /\ r.msg[1] = CommandQuote
              THEN [kind |-> "FoundButRestricted", path |-> SubSeq(r.msg, 2, Len(r.msg) - 1)]
              ELSE [kind |-> "Other", path |-> <<>>]

\* C1: find_configuration returns the outcome of the reference resolution: a
\* name with an extension is looked up literally; otherwise the first found
\* candidate compatible with the context wins, else the last found candidate
\* is reported as found but restricted, else the command is not found.
C1_LocateMatchesReference ==
    exe # None => Outcome(exe) = RefLocate(args[2], files, is_on_unc_path(cwd, link))

\* C1 witness: restricted context, f.bat and f.cmd both present and f.exe
\* absent: the lower-priority f.cmd is the one reported
C1_Witness ==
    /\ exe # None /\ ~exe.ok
    /\ args[2] = F /\ files = {F \o DotBat, F \o DotCmd}
    /\ is_on_unc_path(cwd, link)
    /\ exe.msg = <<CommandQuote>> \o PathOf(F \o DotCmd) \o <<RestrictedTail>>

IsScript(cmd) == ends_with(cmd, DotBat) \/ ends_with(cmd, DotCmd)

ExplicitFound == Len(args) >= 2 /\ has_extension(args[2]) /\ args[2] \in files

\* C2 as stated: a name with an explicit extension that is found resolves, in
\* either context, with no shell wrapper and no stream capture, and is
\* spawned directly with inherited streams.
C2_ExplicitAlwaysDirect ==
    (ExplicitFound /\ exe # None) =>
        /\ exe.ok /\ ~exe.needs_cmd_wrapper /\ ~exe.pipe
        /\ command # None => (command.program = exe.path /\ ~command.piped)

\* C2 amended: a name with an explicit extension that is found resolves, in
\* either context, to the found path; the shell wrapper and the stream capture
\* are both used exactly when the name ends in .bat or .cmd, and otherwise the
\* file is spawned directly with inherited streams.
C2_ExplicitWrapperIffScript ==
    (ExplicitFound /\ exe # None) =>
        /\ exe.ok /\ exe.path = PathOf(args[2])
        /\ exe.needs_cmd_wrapper = IsScript(args[2])
        /\ exe.pipe = IsScript(args[2])
        /\ command # None =>
              /\ command.piped = IsScript(args[2])
              /\ command.program = IF IsScript(args[2]) THEN CmdExe ELSE exe.path
              /\ ~IsScript(args[2]) => command.argv = passthrough(args)
        /\ child # "none" =>
              spawned[Len(spawned)].program = IF IsScript(args[2]) THEN CmdExe ELSE exe.path

\* C2 witness: f.bat named explicitly from a restricted directory and
\* launched through cmd.exe
C2_Witness ==
    /\ ExplicitFound /\ args[2] = F \o DotBat /\ is_on_unc_path(cwd, link)
    /\ child = "running" /\ command.program = CmdExe /\ command.piped

Texts(q) == [i \in 1..Len(q) |-> q[i].text]
IsRelayed(e) == e.who = "relay"
IsMain(e) == e.who = "main"

\* the lines stream s of the parent received from its relay thread
Relayed(s) == Texts(SelectSeq(sink[s], IsRelayed))
\* the lines the child writes to stream s
ChildLines(s) == [i \in 1..total[s] |-> LineText(s, i)]

\* C3: with captured streams, once the child has ended, the wait has
\* succeeded and main has returned its exit code, each parent stream holds
\* exactly the lines the child wrote to it, in order.
C3_RelayComplete ==
    (exitCode # <<>> /\ status # None /\ command.piped) =>
        \A s \in Streams : Relayed(s) = ChildLines(s)

MainLines(s) == Texts(SelectSeq(sink[s], IsMain))

\* a run that has returned failed unless a wait gave it the child's status
Returned == exitCode # <<>>
FailedRun == Returned /\ status = None

ErrorColon == ErrorWord \o <<":", " ">>

C6_FallbackToUntranslated ==
    (command # None /\ exe.needs_cmd_wrapper /\ ~translation.success) =>
        /\ command.program = CmdExe
        /\ command.argv = <<SlashC, exe.path>> \o passthrough(args)

IsTarget(p) == p.program # WslPath

\* C7: without a successful resolution no process is spawned, and such a run
\* returns the failure code; the target is spawned at most once.
C7_NoSpawnWithoutResolution ==
    /\ (exe = None \/ ~exe.ok) => (spawned = <<>> /\ child = "none")
    /\ (Returned /\ (exe = None \/ ~exe.ok)) => exitCode = <<1>>
    /\ Len(SelectSeq(spawned, IsTarget)) <= 1

\* C7 witness: only a script was found from a restricted directory; the run
\* has returned
C7_Witness ==
    /\ Returned /\ exe # None /\ ~exe.ok
    /\ exe.msg[Len(exe.msg)] = RestrictedTail
    /\ spawned = <<>>

\* C8: when main returns, no relay thread that was started is still running.
C8_JoinedBeforeReturn ==
    pc = "returned" => \A s \in Streams : thr[s] \in {"unstarted", "finished"}

OnLocalDrive(p) ==
    /\ starts_with(p, MntPrefix)
    /\ Len(p) >= 6 /\ is_ascii_alphabetic(p[6])
    /\ Len(p) = 6 \/ p[7] = "/"

\* C9: is_on_unc_path answers "restricted" exactly when the current directory
\* is unknown or its resolved form is not /mnt/<letter> or below it.
C9_RestrictedIffNotOnDrive ==
    unc # <<>> =>
        unc = << ~cwd.ok \/ ~OnLocalDrive(IF link.ok THEN link.path ELSE cwd.path) >>

NoThreadRunning == \A s \in Streams : thr[s] # "running"

\* C10: with captured streams the wait starts only after both relay threads
\* were started, and once the child has ended (which closes both pipes) the
\* relay threads end and main returns its exit code.
C10_WaitAfterStartAndTermination ==
    /\ []((pc = "wait" /\ command.piped) => \A s \in Streams : thr[s] # "unstarted")
    /\ (child = "exited" /\ command.piped) ~> (Returned /\ NoThreadRunning)

\* C10 witness: main waits at the join for a thread that is still draining,
\* after the child has ended
C10_Witness ==
    /\ pc = "join_out" /\ child = "exited" /\ thr["out"] = "running" /\ pipe["out"] # <<>>

====
